---- MODULE Spec2Model ----
(***************************************************************************)
(* State-machine model of script.js: the page entrypoint, the Three.js     *)
(* render loop built by setupThree, its resize policy, its pointer         *)
(* listener and ring hover effect, the exposed start/resize/dispose API    *)
(* and the Perf monitor.                                                   *)
(*                                                                         *)
(* Time is in milliseconds.  Fractional quantities are kept in fixed       *)
(* point: device pixel ratios in hundredths, ring rotations in             *)
(* thousandths of a radian, the particle system rotation in                *)
(* ten-thousandths, world lengths in 26ths, screen coordinates in          *)
(* ten-thousandths.  camera.aspect = w / h is kept as the pair <<w, h>>    *)
(* and compared by cross multiplication.                                   *)
(***************************************************************************)
EXTENDS Integers, Sequences, FiniteSets, TLC

VARIABLES
  env,          \* the platform: what the browser offers on this page load
  phase,        \* "loading" until the ready() callback has run, then "ready"
  installs,     \* how many times each UI wiring function has run
  toasts,       \* how many toasts of each kind Toast.create has made
  welcomeTimer, \* ms left on init's greeting setTimeout, -1 when not armed
  api,          \* TRUE once setupThree has returned its API object
  rafPending,   \* requestAnimationFrame(renderLoop) callbacks now pending
  eng,          \* closure state of setupThree: clock, scene, rings, draw count
  releases,     \* dispose() calls received by each GPU resource
  perf,         \* closure state of Perf: last, frames, fps
  clock,        \* the value now() returns
  win,          \* window.innerWidth / innerHeight / devicePixelRatio
  view,         \* renderer size and pixel ratio, camera aspect and projection
  timers,       \* ms left on each pending setTimeout made by debounce(resize)
  debT,         \* ms left on the timer debounce's `t` names, -1 when it is gone
  lastFrame,    \* what the most recent renderer.render call was given
  modal,        \* the overlay, and the listeners openModal has registered
  scroll,       \* scroll position, throttle flag, progress bar and header
  hist          \* history counters, read only by the properties

vars == <<env, phase, installs, toasts, welcomeTimer, api, rafPending, eng,
          releases, perf, clock, win, view, timers, debT, lastFrame, modal,
          scroll, hist>>

----------------------------------------------------------------------------
(* Bounds of the model *)

MaxClock == 600
MaxTicks == 1
MaxStarts == 1
MaxDisposes == 2
MaxBackSteps == 1

MaxResizeClock == 240
MaxResizeEvents == 3
MaxResizeTicks == 1
MaxPerfClock == 1040
MaxPerfTicks == 62
MaxModalOpens == 2
MaxModalEvents == 4
MaxScrollEvents == 3

TimeSteps == {200, 400}
BackSteps == {200}
ResizeSteps == {40, 80}
PerfSteps == {16, 17, 33, 34}

----------------------------------------------------------------------------
(* Program constants *)

pixelRatioLimit == 2
debounceWait == 80
perfWindow == 1000
welcomeDelay == 600
ringCount == 9

\* CFG.three.camera: z = 6, and tan(fov / 2) for fov = 45 degrees, in
\* ten-thousandths.
cameraZ == 6
tanHalfFov == 4142

Hundredths(n) == n * 100

WiringSet == {"setupNavigation", "setupShowcase", "setupForm", "setupMagnetic",
              "setupUnderlineHover", "injectParticles", "Scroll.setup",
              "setupGSAPAnimations"}

ToastKinds == {"nowebgl", "initerror", "welcome"}

Rings == 0..(ringCount - 1)

RingResources == {<<k, i>> : k \in {"ringGeo", "ringMat"}, i \in Rings}

Resources == {<<"renderer", 0>>, <<"particlesGeo", 0>>, <<"particlesMat", 0>>,
              <<"envGeo", 0>>, <<"envMat", 0>>, <<"planeGeo", 0>>, <<"planeMat", 0>>}
             \cup RingResources

----------------------------------------------------------------------------
(* Small helpers of the file *)

Min(a, b) == IF a <= b THEN a ELSE b

Max(a, b) == IF a >= b THEN a ELSE b

clamp(v, a, b) == Max(a, Min(b, v))

\* Math.round of the positive quotient a / b: the nearest integer, halves up.
MathRound(a, b) == (2 * a + b) \div (2 * b)

\* Fixed point of the ring hover effect.  World lengths are in 26ths, so
\* that d * 0.26 is d hundredths; the proximity t is in hundredths; the
\* eased t is in millionths (the cube of hundredths); a scale is in
\* hundredths of that again, 1.0 being 100 * EaseUnit.
DistUnit == 26
TUnit == 100
EaseUnit == TUnit * TUnit * TUnit

\* Normalised device coordinates and the tangent of the half field of view
\* are in ten-thousandths.
NdcUnit == 10000

\* The sine and cosine of the camera's azimuth are in 13ths.
PoseUnit == 13

\* lerp(a, b, t) = a + (b - a) * t, for a and b in hundredths and t in
\* millionths.
lerp(a, b, t) == a * EaseUnit + (b - a) * t

\* easeOutCubic(t) = 1 - (1 - t)^3, for t in hundredths.
easeOutCubic(t) == EaseUnit - (TUnit - t) * (TUnit - t) * (TUnit - t)

----------------------------------------------------------------------------
(* Perf monitor (Perf.frameTick) *)

\* What a display element shows: the text the page came with, a number, a
\* number of megabytes, or the dash the code writes for "no value".
PageText == [kind |-> "page", n |-> 0]

NumText(n) == [kind |-> "num", n |-> n]

MBText(n) == [kind |-> "MB", n |-> n]

Marker == [kind |-> "dash", n |-> 0]

bytesPerMB == 1048576

\* String(renderer.info.render.triangles || 0) inside try/catch: src.tris is
\* what the renderer offers, a count, an info object without `triangles`, or
\* no info object at all (the property read throws).
trisText(tris) ==
  CASE tris.kind = "count" -> NumText(tris.n)
    [] tris.kind = "missing" -> NumText(0)
    [] OTHER -> Marker

\* The #mem text: performance.memory.usedJSHeapSize in MB, rounded, or the
\* dash when it is missing or 0.
memText(heap) == IF heap # 0 THEN MBText((2 * heap + bytesPerMB) \div (2 * bytesPerMB)) ELSE Marker

\* The three displays as frameTick leaves them when it publishes fps; an
\* element the page does not have is not written.
showStats(p, fps, src) ==
  [p EXCEPT !.fpsText = IF src.fpsEl THEN NumText(fps) ELSE @,
            !.trisText = IF src.trisEl THEN trisText(src.tris) ELSE @,
            !.memText = IF src.memEl THEN memText(src.heap) ELSE @]

\* One call of Perf.frameTick(renderer) at time t: count the frame, and once
\* the window that began at p.last has lasted perfWindow ms, publish fps and
\* the displays and reset.  src is the platform: the display elements, the
\* renderer's info and the heap size.  p.samples counts the publications.
\* Variant: fps taken from the count before this frame is added.
frameTick_StaleCount(p, t, src) ==
  LET dt == t - p.last
  IN IF dt >= perfWindow
       THEN showStats([p EXCEPT !.fps = MathRound(p.frames * 1000, dt), !.frames = 0,
                                !.last = t, !.samples = @ + 1],
                      MathRound(p.frames * 1000, dt), src)
       ELSE [p EXCEPT !.frames = p.frames + 1]

\* Variant: the window is not restarted when fps is published.
frameTick_KeepWindow(p, t, src) ==
  LET n == p.frames + 1
      dt == t - p.last
  IN IF dt >= perfWindow
       THEN showStats([p EXCEPT !.fps = MathRound(n * 1000, dt), !.frames = 0,
                                !.samples = @ + 1],
                      MathRound(n * 1000, dt), src)
       ELSE [p EXCEPT !.frames = n]

frameTick(p, t, src) ==
  LET n == p.frames + 1
      dt == t - p.last
  IN IF dt >= perfWindow
       THEN showStats([p EXCEPT !.fps = MathRound(n * 1000, dt), !.frames = 0,
                                !.last = t, !.samples = @ + 1],
                      MathRound(n * 1000, dt), src)
       ELSE [p EXCEPT !.frames = n]

----------------------------------------------------------------------------
(* Viewport: pixel ratio, renderer size, camera aspect *)

\* Math.min(window.devicePixelRatio || 1, CFG.three.pixelRatioLimit), in
\* hundredths; a missing or zero devicePixelRatio is falsy and reads as 1.
\* Variant: the pixel ratio taken unclamped.
DPR_NoClamp(d) == IF d = 0 THEN Hundredths(1) ELSE d

DPR(d) == Min(IF d = 0 THEN Hundredths(1) ELSE d, Hundredths(pixelRatioLimit))

\* camera.updateProjectionMatrix(): the projection takes the camera's aspect.
updateProjectionMatrix(v) == [v EXCEPT !.projAspect = v.aspect]

\* Variant: the renderer resized, the camera left as it was.
resize_NoAspect(v, w) ==
  [v EXCEPT !.pixelRatio = DPR(w.dpr), !.surfW = w.w, !.surfH = w.h]

\* resize(): pixel ratio, renderer size and camera aspect from the window.
resize(v, w) ==
  updateProjectionMatrix(
    [v EXCEPT !.pixelRatio = DPR(w.dpr),
              !.surfW = w.w,
              !.surfH = w.h,
              !.aspect = <<w.w, w.h>>])

NoView == [pixelRatio |-> 0, surfW |-> 0, surfH |-> 0, aspect |-> <<0, 0>>,
           projAspect |-> <<0, 0>>, uPixelRatio |-> 0]

\* The renderer, camera and particle material as setupThree leaves them:
\* setPixelRatio, the camera built with the window's aspect, the shader
\* uniform uPixelRatio, then the first resize().
initialView(w) ==
  resize([NoView EXCEPT !.pixelRatio = DPR(w.dpr),
                        !.aspect = <<w.w, w.h>>,
                        !.projAspect = <<w.w, w.h>>,
                        !.uPixelRatio = DPR(w.dpr)], w)

----------------------------------------------------------------------------
(* Scene and render loop *)

FrameSteps == <<"scene", "tori", "controls", "render", "perf">>

FailPoints == {"none"} \cup {FrameSteps[i] : i \in 1..Len(FrameSteps)}

StepIdx(s) == CHOOSE i \in 1..Len(FrameSteps) : FrameSteps[i] = s

\* Step s of the frame runs to its end when the frame throws at failAt: a
\* step that throws has no effect and nothing after it runs.
Runs(failAt, s) == failAt = "none" \/ StepIdx(s) < StepIdx(failAt)

particleCount == 420

\* The objects setupThree adds to the scene.
SceneChildren == {"hemi", "dir", "envSphere", "root", "plane", "orbitLight"}

\* buildTori's loop from index i on: one mesh per index below ringCount is
\* added to torusGroup.
\* Variant: the loop runs up to and including ringCount.
RECURSIVE buildToriLoop_Inclusive(_, _)
buildToriLoop_Inclusive(i, group) ==
  IF i <= ringCount THEN buildToriLoop_Inclusive(i + 1, group \cup {i}) ELSE group

RECURSIVE buildToriLoop(_, _)
buildToriLoop(i, group) ==
  IF i < ringCount THEN buildToriLoop(i + 1, group \cup {i}) ELSE group

buildTori == buildToriLoop(0, {})

\* mesh.position of ring i, in 26ths:
\* (cos(2 pi i / 9) (1.6 + 0.14 i), sin(2 pi i / 9) (0.6 + 0.06 i), -0.06 i).
ringPosition ==
  [i \in Rings |->
     CASE i = 0 -> <<42, 0, 0>>
       [] i = 1 -> <<35, 11, -2>>
       [] i = 2 -> <<8, 18, -3>>
       [] i = 3 -> <<-26, 18, -5>>
       [] i = 4 -> <<-53, 7, -6>>
       [] i = 5 -> <<-56, -8, -8>>
       [] i = 6 -> <<-32, -22, -9>>
       [] i = 7 -> <<12, -26, -11>>
       [] OTHER -> <<54, -18, -12>>]

\* The mesh buildTori makes for index i: userData.index, position (26ths),
\* rotation.x (hundredths of pi: pi * 0.15 * (i % 2 ? -1 : 1)), the torus
\* radius 0.8 + 0.08 i and tube 0.08 + 0.03 (i % 2) (hundredths), and the
\* hue (0.55 + i / 9 * 0.25) % 1 of its colour (180ths).
ringMesh(i) ==
  [index |-> i,
   position |-> ringPosition[i],
   rotationX |-> IF i % 2 # 0 THEN -15 ELSE 15,
   radius |-> 80 + 8 * i,
   tube |-> 8 + 3 * (i % 2),
   hue |-> (99 + 5 * i) % 180]

NoMesh == [index |-> 0, position |-> <<0, 0, 0>>, rotationX |-> 0, radius |-> 0,
           tube |-> 0, hue |-> 0]

\* Math.sqrt rounded down: the largest r in lo..hi with r * r <= n.
RECURSIVE sqrtIn(_, _, _)
sqrtIn(n, lo, hi) ==
  IF lo = hi THEN lo
  ELSE LET mid == (lo + hi + 1) \div 2
       IN IF mid * mid <= n THEN sqrtIn(n, mid, hi) ELSE sqrtIn(n, lo, mid - 1)

Abs(x) == IF x < 0 THEN -x ELSE x

\* Vector3.distanceTo, rounded down to a whole 26th.  The root lies between
\* the largest of the three differences and their sum.
distanceTo(a, b) ==
  LET dx == Abs(a[1] - b[1])
      dy == Abs(a[2] - b[2])
      dz == Abs(a[3] - b[3])
  IN sqrtIn(dx * dx + dy * dy + dz * dz, Max(dx, Max(dy, dz)), dx + dy + dz)

\* t = clamp(1 - d * 0.26, 0, 1), in hundredths.
\* Variant: the proximity is not clamped.
ringT_NoClamp(d) == TUnit - (d * 26 * TUnit) \div (100 * DistUnit)

ringT(d) == clamp(TUnit - (d * 26 * TUnit) \div (100 * DistUnit), 0, TUnit)

\* s = lerp(0.98, 1.14, easeOutCubic(t)).
ringScale(d) == lerp(98, 114, easeOutCubic(ringT(d)))

\* The camera's place on its orbit about the origin, as 13 times the sine
\* and cosine of its azimuth: in front of the plane z = 0 at (0, 0, 6), or
\* swung to the side, at (72/13, 0, 30/13).
FrontPose == [s |-> 0, c |-> 13]

SidePose == [s |-> 12, c |-> 5]

NoEngine == [lastTime |-> 0, elapsed |-> 0, rootArg |-> 0, uTime |-> 0,
             lightSet |-> FALSE, lightArg |-> 0, particleRotY |-> 0,
             ringRotZ |-> [i \in Rings |-> 0], ringRotY |-> [i \in Rings |-> 0],
             draws |-> 0,
             scene |-> {}, rings |-> {}, particles |-> 0,
             mesh |-> [i \in Rings |-> NoMesh],
             ringScale |-> [i \in Rings |-> 100 * EaseUnit],
             pointer |-> <<0, 0>>, pointer3D |-> <<0, 0, 0>>, camPose |-> FrontPose]

\* The closure state when setupThree returns at time t: the rings and the
\* particles built, pointer at (-1, -1), pointer3D a zero vector.
initialEngine(t) ==
  [NoEngine EXCEPT !.lastTime = t, !.scene = SceneChildren,
                   !.rings = buildTori, !.particles = particleCount,
                   !.mesh = [i \in Rings |-> IF i \in buildTori THEN ringMesh(i)
                                              ELSE NoMesh],
                   !.pointer = <<-NdcUnit, -NdcUnit>>]

NoFrame == [drawn |-> FALSE, projAspect |-> <<0, 0>>, surfW |-> 0, surfH |-> 0,
            pixelRatio |-> 0, uPixelRatio |-> 0, uTime |-> 0,
            rootArg |-> 0, lightArg |-> 0,
            ringRotZ |-> [i \in Rings |-> 0], ringRotY |-> [i \in Rings |-> 0],
            ringScale |-> [i \in Rings |-> 100 * EaseUnit]]

\* updateTori: every mesh of torusGroup is scaled by its distance to
\* pointer3D and spun by its constant step.
\* Variant: the distance is taken to the 2D `pointer`.
updateTori_ScreenPoint(e) ==
  [e EXCEPT !.ringScale = [i \in Rings |->
                             IF i \in e.rings
                               THEN ringScale(distanceTo(e.mesh[i].position,
                                                         <<e.pointer[1], e.pointer[2], 0>>))
                               ELSE e.ringScale[i]],
            !.ringRotZ = [i \in Rings |->
                            IF i \in e.rings
                              THEN e.ringRotZ[i] + 2 + 2 * (e.mesh[i].index % 3)
                            ELSE e.ringRotZ[i]],
            !.ringRotY = [i \in Rings |->
                            IF i \in e.rings THEN e.ringRotY[i] + 1 ELSE e.ringRotY[i]]]

\* Variant: a ring the pointer is near spins twice as fast.
updateTori_SpinNear(e) ==
  [e EXCEPT !.ringScale = [i \in Rings |->
                             IF i \in e.rings
                               THEN ringScale(distanceTo(e.mesh[i].position, e.pointer3D))
                               ELSE e.ringScale[i]],
            !.ringRotZ = [i \in Rings |->
                            IF i \in e.rings
                              THEN e.ringRotZ[i] + (2 + 2 * (e.mesh[i].index % 3))
                                     * (IF ringT(distanceTo(e.mesh[i].position,
                                                            e.pointer3D)) > 0
                                          THEN 2 ELSE 1)
                            ELSE e.ringRotZ[i]],
            !.ringRotY = [i \in Rings |->
                            IF i \in e.rings THEN e.ringRotY[i] + 1 ELSE e.ringRotY[i]]]

\* Variant: the spin is also applied about the x axis.
updateTori_SpinX(e) ==
  [e EXCEPT !.ringScale = [i \in Rings |->
                             IF i \in e.rings
                               THEN ringScale(distanceTo(e.mesh[i].position, e.pointer3D))
                               ELSE e.ringScale[i]],
            !.ringRotZ = [i \in Rings |->
                            IF i \in e.rings
                              THEN e.ringRotZ[i] + 2 + 2 * (e.mesh[i].index % 3)
                            ELSE e.ringRotZ[i]],
            !.ringRotY = [i \in Rings |->
                            IF i \in e.rings THEN e.ringRotY[i] + 1 ELSE e.ringRotY[i]],
            !.mesh = [i \in Rings |->
                        IF i \in e.rings
                          THEN [e.mesh[i] EXCEPT !.rotationX = @ + 1]
                        ELSE e.mesh[i]]]

updateTori(e) ==
  [e EXCEPT !.ringScale = [i \in Rings |->
                             IF i \in e.rings
                               THEN ringScale(distanceTo(e.mesh[i].position, e.pointer3D))
                               ELSE e.ringScale[i]],
            !.ringRotZ = [i \in Rings |->
                            IF i \in e.rings
                              THEN e.ringRotZ[i] + 2 + 2 * (e.mesh[i].index % 3)
                            ELSE e.ringRotZ[i]],
            !.ringRotY = [i \in Rings |->
                            IF i \in e.rings THEN e.ringRotY[i] + 1 ELSE e.ringRotY[i]]]

\* The transforms and uniforms animateThree derives from elapsed.
updateScene(e) ==
  [e EXCEPT !.rootArg = e.elapsed,
            !.uTime = e.elapsed,
            !.particleRotY = @ + 2,
            !.lightSet = TRUE,
            !.lightArg = e.elapsed]

\* ray.setFromCamera(pointer, camera) and ray.intersectPlane(planeZ, ...):
\* the ray from the camera at `pose` through the point (x, y) of the screen,
\* for a projection of the given aspect, met with the plane z = 0.  The ray
\* meets the plane where its direction has a component towards it; its
\* z-component is -(c + x * aspect * tan(fov / 2) * s) / 13.
intersectPlane(pose, x, y, aspect) ==
  LET aT == (aspect[1] * tanHalfFov) \div aspect[2]
      xaT == (x * aT) \div NdcUnit
      yT == (y * tanHalfFov) \div NdcUnit
      D == pose.c * NdcUnit + xaT * pose.s
  IN IF D > 0
       THEN [hit |-> TRUE,
             at |-> <<(cameraZ * DistUnit * PoseUnit * xaT) \div D,
                      (cameraZ * DistUnit * pose.c * yT) \div D, 0>>]
       ELSE [hit |-> FALSE, at |-> <<0, 0, 0>>]

\* The normalised device coordinates of the client point (cx, cy) in window w.
\* Variant: Y not inverted.
ndc_YDown(w, cx, cy) ==
  <<(2 * NdcUnit * cx) \div w.w - NdcUnit, (2 * NdcUnit * cy) \div w.h - NdcUnit>>

ndc(w, cx, cy) ==
  <<(2 * NdcUnit * cx) \div w.w - NdcUnit, NdcUnit - (2 * NdcUnit * cy) \div w.h>>

\* onPointerMove(e) for an event at client point (cx, cy): `pointer` is
\* set, and pointer3D is written only where the ray meets the plane.
\* Variant: pointer3D is cleared when the ray misses.
onPointerMove_ClearOnMiss(e, v, w, cx, cy) ==
  LET p == ndc(w, cx, cy)
      r == intersectPlane(e.camPose, p[1], p[2], v.projAspect)
  IN [e EXCEPT !.pointer = p, !.pointer3D = r.at]

onPointerMove(e, v, w, cx, cy) ==
  LET p == ndc(w, cx, cy)
      r == intersectPlane(e.camPose, p[1], p[2], v.projAspect)
  IN [e EXCEPT !.pointer = p, !.pointer3D = IF r.hit THEN r.at ELSE @]

\* The frame time renderLoop hands to animateThree.
frameDt(t, lastTime) == t - lastTime

\* renderer.render(scene, camera): what the draw call is given.
render(e, v) ==
  [drawn |-> TRUE, projAspect |-> v.projAspect, surfW |-> v.surfW,
   surfH |-> v.surfH, pixelRatio |-> v.pixelRatio,
   uPixelRatio |-> v.uPixelRatio, uTime |-> e.uTime,
   rootArg |-> e.rootArg, lightArg |-> e.lightArg,
   ringRotZ |-> e.ringRotZ, ringRotY |-> e.ringRotY, ringScale |-> e.ringScale]

\* animateThree(dt) on engine state e; the frame throws at failAt.
\* Variant: the transforms and uniforms are set before dt is added to elapsed.
animateThree_SceneFirst(e, dt, failAt) ==
  LET e1 == IF Runs(failAt, "scene") THEN updateScene(e) ELSE e
      e2 == [e1 EXCEPT !.elapsed = @ + dt]
      e3 == IF Runs(failAt, "tori") THEN updateTori(e2) ELSE e2
  IN IF Runs(failAt, "render") THEN [e3 EXCEPT !.draws = @ + 1] ELSE e3

animateThree(e, dt, failAt) ==
  LET e1 == [e EXCEPT !.elapsed = @ + dt]
      e2 == IF Runs(failAt, "scene") THEN updateScene(e1) ELSE e1
      e3 == IF Runs(failAt, "tori") THEN updateTori(e2) ELSE e2
  IN IF Runs(failAt, "render") THEN [e3 EXCEPT !.draws = @ + 1] ELSE e3

\* Whether renderLoop gets as far as requestAnimationFrame(renderLoop).
reschedules(failAt) == failAt = "none"

\* dispose(): the .dispose() calls it makes, in order: the renderer, the
\* particle geometry and material, then each ring's geometry and material.
DisposeOrder ==
  [k \in 1..(3 + 2 * ringCount) |->
     CASE k = 1 -> <<"renderer", 0>>
       [] k = 2 -> <<"particlesGeo", 0>>
       [] k = 3 -> <<"particlesMat", 0>>
       [] OTHER -> <<IF k % 2 = 0 THEN "ringGeo" ELSE "ringMat", (k - 4) \div 2>>]

\* The step of dispose() that throws: 0 when none does.
DisposeFailPoints == 0..Len(DisposeOrder)

\* dispose() when its call number failAt throws: the calls before it are
\* made, the throwing call releases nothing and no call after it is made.
dispose(rel, failAt) ==
  [x \in Resources |->
     IF \E k \in 1..Len(DisposeOrder) :
          DisposeOrder[k] = x /\ (failAt = 0 \/ k < failAt)
       THEN rel[x] + 1 ELSE rel[x]]

\* Whether dispose() ends by throwing to its caller.
disposeThrows(failAt) == failAt # 0

----------------------------------------------------------------------------
(* Entrypoint *)

featureDetect(e) == [webgl |-> e.webgl]

InitOrder == <<"setupNavigation", "setupShowcase", "setupForm", "setupMagnetic",
               "setupUnderlineHover", "injectParticles", "Scroll.setup",
               "setupGSAPAnimations">>

NoWebGLOrder == <<"Scroll.setup", "setupGSAPAnimations", "setupNavigation",
                  "setupShowcase", "setupForm", "setupMagnetic",
                  "setupUnderlineHover", "injectParticles">>

FallbackOrder == <<"setupNavigation", "setupShowcase", "setupForm", "setupMagnetic",
                   "setupUnderlineHover", "setupGSAPAnimations", "injectParticles",
                   "Scroll.setup">>

\* What init() wires after setupThree has returned: the keydown handlers of
\* the showcase dots, the overlay's close triggers and the window's keyboard
\* shortcuts (Ctrl+K, Alt+M).
InitTailOrder == <<"showDotsKeydown", "overlayClose", "keyboardShortcuts">>

InitTail == {InitTailOrder[i] : i \in 1..Len(InitTailOrder)}

\* The wiring functions of `order`, each run once more.
RECURSIVE RunAll(_, _)
RunAll(ins, order) ==
  IF order = <<>> THEN ins
  ELSE RunAll([ins EXCEPT ![Head(order)] = @ + 1], Tail(order))

\* Variant: init() entered whatever feature detection said.
entryPath_NoGate(e) ==
  IF e.canvas /\ e.threeThrows THEN "initthrows" ELSE "init"

\* Which way the ready() callback goes: the no-WebGL branch, init() throwing
\* out of setupThree (new THREE.WebGLRenderer), or init() returning.
entryPath(e) ==
  IF ~featureDetect(e).webgl THEN "nowebgl"
  ELSE IF e.canvas /\ e.threeThrows THEN "initthrows"
  ELSE "init"

----------------------------------------------------------------------------
(* Modal overlay and focus trap *)

\* Each openModal call has a number; its closures (keyHandler, cleanup,
\* closeHandler) are known by it.
ModalIds == 1..MaxModalOpens

\* The overlay before any openModal: hidden, no listener of openModal's on
\* the document, the close button, the OK button or the overlay.
NoModal == [hidden |-> TRUE, opens |-> 0, traps |-> {}, onClose |-> {},
            onOK |-> {}, onEscape |-> {}, cleanups |-> [k \in ModalIds |-> 0]]

\* trapFocus(container) of call id: on(document, 'keydown', keyHandler).
trapFocus(m, id) == [m EXCEPT !.traps = @ \cup {id}]

\* The function trapFocus returned: off(document, 'keydown', keyHandler).
cleanup(m, id) == [m EXCEPT !.traps = @ \ {id}, !.cleanups[id] = @ + 1]

\* closeHandler of call id: hide the overlay, cleanup(), and remove itself
\* from the close button only.
closeHandler(m, id) ==
  [cleanup([m EXCEPT !.hidden = TRUE], id) EXCEPT !.onClose = @ \ {id}]

\* openModal(text): show the overlay, trap the focus, and register
\* closeHandler for the close button's click, the overlay's 'escape' and the
\* OK button's click.
openModal(m) ==
  LET id == m.opens + 1
  IN [trapFocus([m EXCEPT !.hidden = FALSE, !.opens = id], id) EXCEPT
        !.onClose = @ \cup {id},
        !.onEscape = @ \cup {id},
        !.onOK = @ \cup {id}]

\* An event delivered to the closeHandlers registered for it, oldest first.
RECURSIVE dispatchClose(_, _)
dispatchClose(m, ids) ==
  IF ids = {} THEN m
  ELSE LET id == CHOOSE x \in ids : \A y \in ids : x <= y
       IN dispatchClose(closeHandler(m, id), ids \ {id})

\* The listeners init() puts on the close and OK buttons: overlay.hidden = true.
initHide(m, ins) == IF ins["overlayClose"] > 0 THEN [m EXCEPT !.hidden = TRUE] ELSE m

----------------------------------------------------------------------------
(* Scroll progress *)

\* doc.scrollHeight - doc.clientHeight of the page.
docHeight == 1000

hideBelow == 200

\* The page before setupNavigation has run: at the top, bar and header as
\* the markup has them.
NoScroll == [pos |-> 0, waiting |-> FALSE, width |-> 0, hide |-> FALSE,
             lastScroll |-> 0]

\* updateProgress(): the bar's width in percent and the header's hide class
\* from window.scrollY, which becomes lastScroll.
updateProgress(s) ==
  [s EXCEPT !.width = IF docHeight > 0 THEN MathRound(s.pos * 100, docHeight) ELSE 0,
            !.hide = s.pos > s.lastScroll /\ s.pos > hideBelow,
            !.lastScroll = IF s.pos <= 0 THEN 0 ELSE s.pos]

\* The function throttle(updateProgress, 16) returns, called: fn runs unless
\* `waiting`, and `waiting` is set until the next animation frame.
throttle(s) ==
  IF ~s.waiting THEN [updateProgress(s) EXCEPT !.waiting = TRUE] ELSE s

----------------------------------------------------------------------------
(* Initial state: the script has been evaluated, ready() has not fired *)

TriangleCounts == {0, 28800}

TrisSources == {[kind |-> "count", n |-> c] : c \in TriangleCounts}
               \cup {[kind |-> "missing", n |-> 0], [kind |-> "throws", n |-> 0]}

\* usedJSHeapSize in bytes: none, 1.5 MB, 10 MB.
HeapSizes == {0, 1572864, 10485760}

AllPlatforms == [webgl : BOOLEAN, canvas : BOOLEAN, threeThrows : BOOLEAN,
                 perfNow : BOOLEAN, fpsEl : BOOLEAN, trisEl : BOOLEAN,
                 memEl : BOOLEAN, tris : TrisSources, heap : HeapSizes]

\* A page with the three displays, a renderer that counts triangles and a
\* browser that reports its heap.
FullStats(e) ==
  /\ e.fpsEl /\ e.trisEl /\ e.memEl
  /\ e.tris = [kind |-> "count", n |-> 28800]
  /\ e.heap = 10485760

Platforms == {e \in AllPlatforms : FullStats(e)}

WinSizes == {<<800, 600>>, <<400, 300>>, <<600, 800>>}

DprValues == {50, 100, 150, 200, 300}

Windows == {[w |-> s[1], h |-> s[2], dpr |-> d] : s \in WinSizes, d \in DprValues}

NoHist == [ticks |-> 0, starts |-> 0, disposeCalls |-> 0, backSteps |-> 0,
           runningEntries |-> 0, frameFailures |-> 0,
           setupThreeCalls |-> 0,
           resizeEvents |-> 0, owedRuns |-> 0, sinceEvt |-> -1, debAt |-> -1,
           winStart |-> 0, winTicks |-> 0, sampleTicks |-> 0, sampleDur |-> 0,
           burstLen |-> 0, resizedFor |-> [w |-> 0, h |-> 0, dpr |-> 0],
           hudAt |-> -1, hudGap |-> -1,
           toriRuns |-> 0, nearSeen |-> FALSE, ringDist |-> [i \in Rings |-> 0], ptrAtTick |-> <<0, 0, 0>>,
           ptrMoves |-> 0, movesAtTick |-> 0, touchMoves |-> 0,
           disposeFailed |-> 0, disposeThrew |-> FALSE,
           modalEvents |-> 0, scrollEvents |-> 0,
           lastEvt |-> [cx |-> 0, cy |-> 0, w |-> 0, h |-> 0, front |-> FALSE,
                        hit |-> FALSE],
           lastTouch |-> <<0, 0>>,
           lastHit |-> <<0, 0, 0>>]

InitWith(platforms, windows) ==
  /\ env \in platforms
  /\ win \in windows
  /\ phase = "loading"
  /\ installs = [f \in WiringSet \cup InitTail |-> 0]
  /\ toasts = [k \in ToastKinds |-> 0]
  /\ welcomeTimer = -1
  /\ api = FALSE
  /\ rafPending = 0
  /\ eng = NoEngine
  /\ releases = [x \in Resources |-> 0]
  /\ perf = [last |-> 0, frames |-> 0, fps |-> 0, samples |-> 0,
             fpsText |-> PageText, trisText |-> PageText, memText |-> PageText]
  /\ clock = 0
  /\ view = NoView
  /\ timers = {}
  /\ debT = -1
  /\ lastFrame = NoFrame
  /\ modal = NoModal
  /\ scroll = NoScroll
  /\ hist = NoHist

Init == InitWith(Platforms, {[w |-> 800, h |-> 600, dpr |-> 100]})

----------------------------------------------------------------------------
(* Actions *)

\* The ready() callback of the entrypoint, whole: feature detection, then the
\* no-WebGL branch, or init() with its catch and fallback.
Ready ==
  /\ phase = "loading"
  /\ phase' = "ready"
  /\ LET path == entryPath(env)
         built == path = "init" /\ env.canvas
     IN /\ installs' = (CASE path = "nowebgl" -> RunAll(installs, NoWebGLOrder)
                          [] path = "initthrows" ->
                               RunAll(RunAll(installs, InitOrder), FallbackOrder)
                          [] OTHER -> RunAll(RunAll(installs, InitOrder), InitTailOrder))
        /\ toasts' = (CASE path = "nowebgl" -> [toasts EXCEPT !["nowebgl"] = @ + 1]
                        [] path = "initthrows" -> [toasts EXCEPT !["initerror"] = @ + 1]
                        [] OTHER -> toasts)
        /\ welcomeTimer' = IF path = "init" THEN welcomeDelay ELSE -1
        /\ api' = built
        /\ rafPending' = IF built THEN 1 ELSE 0
        /\ eng' = IF built THEN initialEngine(clock) ELSE eng
        /\ view' = IF built THEN initialView(win) ELSE view
        /\ hist' = [hist EXCEPT
                      !.setupThreeCalls = IF path = "nowebgl" THEN @ ELSE @ + 1,
                      !.runningEntries = IF built THEN @ + 1 ELSE @,
                      !.resizedFor = IF built THEN win ELSE @]
  /\ scroll' = updateProgress(scroll)
  /\ UNCHANGED <<env, releases, perf, clock, win, timers, debT, lastFrame,
                 modal>>

\* The greeting toast init() schedules with setTimeout(..., 600).
WelcomeToast ==
  /\ welcomeTimer = 0
  /\ welcomeTimer' = -1
  /\ toasts' = [toasts EXCEPT !["welcome"] = @ + 1]
  /\ UNCHANGED <<env, phase, installs, api, rafPending, eng, releases, perf,
                 clock, win, view, timers, debT, lastFrame, hist,
                 modal, scroll>>

\* One run of renderLoop's body at time `clock`; the frame throws at failAt.
RunFrame(failAt) ==
  LET e == animateThree([eng EXCEPT !.lastTime = clock],
                        frameDt(clock, eng.lastTime), failAt)
  IN /\ eng' = e
     /\ lastFrame' = IF Runs(failAt, "render") THEN render(e, view) ELSE lastFrame
     /\ perf' = IF Runs(failAt, "perf") THEN frameTick(perf, clock, env) ELSE perf

\* Bookkeeping of one run of renderLoop's body, kept apart from Perf's own
\* counters: the frames seen and the time passed since the last fps sample,
\* and the clock readings at which the displays were written.
noteFrame(h, failAt) ==
  LET seen == Runs(failAt, "perf")
      dur == clock - h.winStart
      closes == seen /\ dur >= perfWindow
      shown == seen /\ frameTick(perf, clock, env).samples # perf.samples
      tori == Runs(failAt, "tori")
      dists == [i \in Rings |-> distanceTo(ringPosition[i], eng.pointer3D)]
  IN [h EXCEPT !.ticks = @ + 1,
               !.toriRuns = IF tori THEN @ + 1 ELSE @,
               !.ringDist = IF tori THEN dists ELSE @,
               !.nearSeen = @ \/ (tori /\ \E i \in eng.rings : dists[i] = 0),
               !.ptrAtTick = IF tori THEN h.lastHit ELSE @,
               !.movesAtTick = IF tori THEN h.ptrMoves ELSE @,
               !.hudAt = IF shown THEN clock ELSE @,
               !.hudGap = IF shown /\ h.hudAt # -1 THEN clock - h.hudAt ELSE @,
               !.frameFailures = IF failAt = "none" THEN @ ELSE @ + 1,
               !.winTicks = IF closes THEN 0 ELSE IF seen THEN @ + 1 ELSE @,
               !.winStart = IF closes THEN clock ELSE @,
               !.sampleTicks = IF closes THEN h.winTicks + 1 ELSE @,
               !.sampleDur = IF closes THEN dur ELSE @]

\* A pending requestAnimationFrame(renderLoop) callback runs.
Tick(failAt) ==
  /\ rafPending > 0
  /\ RunFrame(failAt)
  /\ rafPending' = (rafPending - 1) + (IF reschedules(failAt) THEN 1 ELSE 0)
  /\ hist' = noteFrame(hist, failAt)
  /\ UNCHANGED <<env, phase, installs, toasts, welcomeTimer, api, releases,
                 clock, win, view, timers, debT,
                 modal, scroll>>

\* The API's start(): renderLoop() called directly by the holder of the API.
ApiStart(failAt) ==
  /\ api
  /\ RunFrame(failAt)
  /\ rafPending' = rafPending + (IF reschedules(failAt) THEN 1 ELSE 0)
  /\ hist' = [noteFrame(hist, failAt) EXCEPT
                 !.starts = @ + 1,
                 !.runningEntries = IF reschedules(failAt) THEN @ + 1 ELSE @]
  /\ UNCHANGED <<env, phase, installs, toasts, welcomeTimer, api, releases,
                 clock, win, view, timers, debT,
                 modal, scroll>>

\* The API's dispose(); its call number failAt throws.
ApiDispose(failAt) ==
  /\ api
  /\ releases' = dispose(releases, failAt)
  /\ hist' = [hist EXCEPT !.disposeCalls = @ + 1,
                          !.disposeFailed = failAt,
                          !.disposeThrew = disposeThrows(failAt)]
  /\ UNCHANGED <<env, phase, installs, toasts, welcomeTimer, api, rafPending, eng,
                 perf, clock, win, view, timers, debT, lastFrame,
                 modal, scroll>>

\* A 'pointermove' event at client point (cx, cy) reaches the listener that
\* setupThree registered on window.
PointerMove(cx, cy) ==
  /\ api
  /\ eng' = onPointerMove(eng, view, win, cx, cy)
  /\ LET p == ndc(win, cx, cy)
         r == intersectPlane(eng.camPose, p[1], p[2], view.projAspect)
     IN hist' = [hist EXCEPT !.ptrMoves = @ + 1,
                             !.lastEvt = [cx |-> cx, cy |-> cy, w |-> win.w, h |-> win.h,
                                          front |-> eng.camPose = FrontPose,
                                          hit |-> r.hit],
                             !.lastHit = IF r.hit THEN r.at ELSE @]
  /\ UNCHANGED <<env, phase, installs, toasts, welcomeTimer, api, rafPending,
                 releases, perf, clock, win, view, timers, debT, lastFrame,
                 modal, scroll>>

\* A 'touchmove' event at client point (cx, cy) is dispatched on window:
\* setupThree has registered no listener for it.
TouchMove(cx, cy) ==
  /\ api
  /\ hist' = [hist EXCEPT !.touchMoves = @ + 1, !.lastTouch = <<cx, cy>>]
  /\ UNCHANGED <<env, phase, installs, toasts, welcomeTimer, api, rafPending, eng,
                 releases, perf, clock, win, view, timers, debT, lastFrame,
                 modal, scroll>>

\* The user drags the scene: OrbitControls leaves the camera at `pose`.
Orbit(pose) ==
  /\ api
  /\ pose # eng.camPose
  /\ eng' = [eng EXCEPT !.camPose = pose]
  /\ UNCHANGED <<env, phase, installs, toasts, welcomeTimer, api, rafPending, hist,
                 releases, perf, clock, win, view, timers, debT, lastFrame,
                 modal, scroll>>

\* d ms pass: now() and every pending timer move on.  No timer is overrun:
\* a timer that is due fires before more time passes.
Advance(d) ==
  /\ \A x \in timers : x >= d
  /\ welcomeTimer = -1 \/ welcomeTimer >= d
  /\ clock' = clock + d
  /\ timers' = {x - d : x \in timers}
  /\ debT' = IF debT >= 0 THEN debT - d ELSE debT
  /\ welcomeTimer' = IF welcomeTimer >= 0 THEN welcomeTimer - d ELSE welcomeTimer
  /\ hist' = [hist EXCEPT !.sinceEvt = IF @ = -1 THEN -1
                                        ELSE Min(@ + d, debounceWait + 1)]
  /\ UNCHANGED <<env, phase, installs, toasts, api, rafPending, eng, releases,
                 perf, win, view, lastFrame,
                 modal, scroll>>

\* Without performance.now, now() is Date.now(), which the system may set
\* back by d ms.
ClockStepBack(d) ==
  /\ ~env.perfNow
  /\ clock - d >= 0
  /\ clock' = clock - d
  /\ hist' = [hist EXCEPT !.backSteps = @ + 1]
  /\ UNCHANGED <<env, phase, installs, toasts, welcomeTimer, api, rafPending, eng,
                 releases, perf, win, view, timers, debT, lastFrame,
                 modal, scroll>>

\* debounce(resize, 80) called: clearTimeout(t), then t = setTimeout(..., 80).
\* tm is the set of pending timers, t the one the closure's `t` names.
\* Variant: the earlier timer is left pending.
debounceCall_NoClear(tm, t) == tm \cup {debounceWait}

debounceCall(tm, t) == (tm \ {t}) \cup {debounceWait}

\* The window changes to w and its 'resize' event reaches the debounced
\* listener that setupThree registered.  Timers are exact: one that is due
\* has fired before an event of the same instant is delivered.
WindowResize(w) ==
  /\ api
  /\ 0 \notin timers
  /\ w # win
  /\ win' = w
  /\ timers' = debounceCall(timers, debT)
  /\ debT' = debounceWait
  /\ hist' = [hist EXCEPT !.resizeEvents = @ + 1,
                          !.owedRuns = IF hist.sinceEvt = -1 \/ hist.sinceEvt >= debounceWait
                                         THEN @ + 1 ELSE @,
                          !.burstLen = IF hist.sinceEvt = -1 \/ hist.sinceEvt >= debounceWait
                                         THEN 1 ELSE @ + 1,
                          !.sinceEvt = 0]
  /\ UNCHANGED <<env, phase, installs, toasts, welcomeTimer, api, rafPending, eng,
                 releases, perf, clock, view, lastFrame,
                 modal, scroll>>

\* A timer set by the debounced listener is due: resize() runs.
DebounceFire ==
  /\ 0 \in timers
  /\ timers' = timers \ {0}
  /\ debT' = IF debT = 0 THEN -1 ELSE debT
  /\ view' = resize(view, win)
  /\ hist' = [hist EXCEPT !.owedRuns = @ - 1, !.debAt = hist.sinceEvt,
                          !.resizedFor = win]
  /\ UNCHANGED <<env, phase, installs, toasts, welcomeTimer, api, rafPending, eng,
                 releases, perf, clock, win, lastFrame,
                 modal, scroll>>

\* The API's resize(), called directly.
ApiResize ==
  /\ api
  /\ view' = resize(view, win)
  /\ hist' = [hist EXCEPT !.resizedFor = win]
  /\ UNCHANGED <<env, phase, installs, toasts, welcomeTimer, api, rafPending, eng,
                 releases, perf, clock, win, timers, debT, lastFrame,
                 modal, scroll>>

\* openModal(...) is called: the timer a form submit started has fired.
OpenModal ==
  /\ phase = "ready"
  /\ installs["setupForm"] > 0
  /\ modal' = openModal(modal)
  /\ UNCHANGED <<env, phase, installs, toasts, welcomeTimer, api, rafPending, eng,
                 releases, perf, clock, win, view, timers, debT, lastFrame,
                 scroll, hist>>

\* What a user's action on the overlay leaves of `modal`.
ModalEvent(m) ==
  /\ modal' = m
  /\ hist' = [hist EXCEPT !.modalEvents = @ + 1]
  /\ UNCHANGED <<env, phase, installs, toasts, welcomeTimer, api, rafPending, eng,
                 releases, perf, clock, win, view, timers, debT, lastFrame,
                 scroll>>

\* A click on the modal's close button: init's listener and every
\* closeHandler still registered on the button.
ClickClose ==
  /\ phase = "ready" /\ ~modal.hidden
  /\ ModalEvent(dispatchClose(initHide(modal, installs), modal.onClose))

\* A click on the modal's OK button.
ClickOK ==
  /\ phase = "ready" /\ ~modal.hidden
  /\ ModalEvent(dispatchClose(initHide(modal, installs), modal.onOK))

\* A click on the overlay outside the modal: init's listener on the overlay.
ClickOverlay ==
  /\ phase = "ready" /\ ~modal.hidden
  /\ installs["overlayClose"] > 0
  /\ ModalEvent([modal EXCEPT !.hidden = TRUE])

\* Alt+M: init's keydown listener on window toggles overlay.hidden.
AltM ==
  /\ phase = "ready"
  /\ installs["keyboardShortcuts"] > 0
  /\ ModalEvent([modal EXCEPT !.hidden = ~@])

\* Escape is pressed while a keyHandler is on the document: it dispatches
\* 'escape' on the modal, which reaches every closeHandler on the overlay;
\* their cleanups take the other keyHandlers off the document before these
\* are called.
PressEscape ==
  /\ phase = "ready"
  /\ modal.traps # {}
  /\ ModalEvent(dispatchClose(modal, modal.onEscape))

\* A 'scroll' event with the page at position p reaches the throttled
\* listener setupNavigation registered on window.
ScrollEvent(p) ==
  /\ phase = "ready"
  /\ installs["setupNavigation"] > 0
  /\ p # scroll.pos
  /\ scroll' = throttle([scroll EXCEPT !.pos = p])
  /\ hist' = [hist EXCEPT !.scrollEvents = @ + 1]
  /\ UNCHANGED <<env, phase, installs, toasts, welcomeTimer, api, rafPending, eng,
                 releases, perf, clock, win, view, timers, debT, lastFrame,
                 modal>>

\* The animation frame callback throttle requested runs: waiting = false.
ThrottleRelease ==
  /\ scroll.waiting
  /\ scroll' = [scroll EXCEPT !.waiting = FALSE]
  /\ UNCHANGED <<env, phase, installs, toasts, welcomeTimer, api, rafPending, eng,
                 releases, perf, clock, win, view, timers, debT, lastFrame,
                 modal, hist>>

Next ==
  \/ Ready
  \/ WelcomeToast
  \/ \E f \in FailPoints : hist.ticks < MaxTicks /\ Tick(f)
  \/ \E f \in FailPoints : hist.ticks < MaxTicks /\ hist.starts < MaxStarts /\ ApiStart(f)
  \/ hist.disposeCalls < MaxDisposes /\ ApiDispose(0)
  \/ \E d \in TimeSteps : clock + d <= MaxClock /\ Advance(d)
  \/ \E d \in BackSteps : hist.backSteps < MaxBackSteps /\ ClockStepBack(d)

Spec == Init /\ [][Next]_vars

----------------------------------------------------------------------------
(* The viewport under window resize events: a page load that builds the     *)
(* engine, then resize events, debounce timers, direct resize() calls and   *)
(* frames in any order.                                                     *)

GoodPlatform ==
  CHOOSE e \in Platforms : e.webgl /\ e.canvas /\ ~e.threeThrows /\ e.perfNow

ResizeWindows == {x \in Windows : x.dpr = 100 \/ (x.dpr = 300 /\ x.w = 800)}

InitResize == InitWith({GoodPlatform}, ResizeWindows)

NextResize ==
  \/ Ready
  \/ \E w \in ResizeWindows : hist.resizeEvents < MaxResizeEvents /\ WindowResize(w)
  \/ DebounceFire
  \/ ApiResize
  \/ hist.ticks < MaxResizeTicks /\ Tick("none")
  \/ \E d \in ResizeSteps :
       phase = "ready" /\ clock + d <= MaxResizeClock /\ Advance(d)

SpecResize == InitResize /\ [][NextResize]_vars

----------------------------------------------------------------------------
(* The Perf monitor under a steady display: a renderLoop callback runs at    *)
(* a display refresh, 16-17 ms (60 Hz) or 33-34 ms (30 Hz) after the one     *)
(* before; time moves from refresh to refresh, stopping at a due timer.      *)

InitPerf == InitWith({GoodPlatform}, {[w |-> 800, h |-> 600, dpr |-> 100]})

\* The waits that end at the next display refresh or at the greeting timer.
PerfWaits ==
  {x \in {eng.lastTime + d - clock : d \in PerfSteps} \cup {welcomeTimer} : x > 0}

NextPerf ==
  \/ Ready
  \/ WelcomeToast
  \/ hist.ticks < MaxPerfTicks /\ (clock - eng.lastTime) \in PerfSteps /\ Tick("none")
  \/ \E d \in PerfWaits :
       /\ phase = "ready"
       /\ clock + d <= MaxPerfClock
       /\ Advance(d)

SpecPerf == InitPerf /\ [][NextPerf]_vars

----------------------------------------------------------------------------
(* The viewport alone, over every window size and device pixel ratio.       *)

NextViewport ==
  \/ Ready
  \/ \E w \in Windows : hist.resizeEvents < MaxResizeEvents /\ WindowResize(w)
  \/ DebounceFire
  \/ ApiResize
  \/ phase = "ready" /\ clock + debounceWait <= MaxResizeClock /\ Advance(debounceWait)

InitViewport == InitWith({GoodPlatform}, Windows)

SpecViewport == InitViewport /\ [][NextViewport]_vars

----------------------------------------------------------------------------
(* The displays of the Perf monitor under any tick cadence: frames at any   *)
(* time, several in one instant included, on every kind of page, renderer   *)
(* and heap report, with a clock that may be set back.                      *)

MaxStatsClock == 2700
MaxStatsTicks == 4
MaxStatsBackSteps == 1

StatsSteps == {500, 1000}

StatsPlatforms ==
  {e \in AllPlatforms : /\ e.webgl /\ e.canvas /\ ~e.threeThrows
                        /\ e.tris.n # 0 \/ e.tris.kind # "count"
                        /\ e.heap # 1572864}

InitStats == InitWith(StatsPlatforms, {[w |-> 800, h |-> 600, dpr |-> 100]})

\* The waits: a step of StatsSteps, or up to the greeting timer.
StatsWaits == {x \in StatsSteps \cup {welcomeTimer} : x > 0}

NextStats ==
  \/ Ready
  \/ WelcomeToast
  \/ hist.ticks < MaxStatsTicks /\ Tick("none")
  \/ \E d \in StatsWaits : phase = "ready" /\ clock + d <= MaxStatsClock /\ Advance(d)
  \/ \E d \in StatsSteps : hist.backSteps < MaxStatsBackSteps /\ ClockStepBack(d)

SpecStats == InitStats /\ [][NextStats]_vars

----------------------------------------------------------------------------
(* The pointer: pointer and touch events over an 800 x 600 window, the      *)
(* camera in front of the plane or swung to its side, and frames.           *)

MaxPointerMoves == 2
MaxTouchMoves == 1
MaxPointerTicks == 2

\* Client points: a grid over the window, and the point whose ray meets the
\* plane at the centre of ring 0.
PointerPoints ==
  {<<x, y>> : x \in {0, 400, 800}, y \in {0, 300}} \cup {<<596, 300>>}

CameraPoses == {FrontPose, SidePose}

SceneWindows == {[w |-> 800, h |-> 600, dpr |-> 100], [w |-> 400, h |-> 300, dpr |-> 100]}

InitPointer == InitWith({GoodPlatform}, {[w |-> 800, h |-> 600, dpr |-> 100]})

NextPointer ==
  \/ Ready
  \/ \E pt \in PointerPoints :
       hist.ptrMoves < MaxPointerMoves /\ PointerMove(pt[1], pt[2])
  \/ \E pt \in PointerPoints :
       hist.touchMoves < MaxTouchMoves /\ TouchMove(pt[1], pt[2])
  \/ \E pose \in CameraPoses : Orbit(pose)
  \/ hist.ticks < MaxPointerTicks /\ Tick("none")

SpecPointer == InitPointer /\ [][NextPointer]_vars

----------------------------------------------------------------------------
(* The engine under every operation: frames, start(), dispose(), pointer   *)
(* moves, a window resize and resize(), in any order.                       *)

MaxSceneTicks == 1
MaxSceneStarts == 1
MaxSceneDisposes == 1
MaxSceneMoves == 1
MaxSceneResizes == 1

ScenePoints == {<<596, 300>>, <<0, 0>>}

InitScene == InitWith({GoodPlatform}, {[w |-> 800, h |-> 600, dpr |-> 100]})

NextScene ==
  \/ Ready
  \/ hist.ticks - hist.starts < MaxSceneTicks /\ Tick("none")
  \/ hist.starts < MaxSceneStarts /\ ApiStart("none")
  \/ hist.disposeCalls < MaxSceneDisposes /\ ApiDispose(0)
  \/ \E pt \in ScenePoints : hist.ptrMoves < MaxSceneMoves /\ PointerMove(pt[1], pt[2])
  \/ \E w \in SceneWindows : hist.resizeEvents < MaxSceneResizes /\ WindowResize(w)
  \/ DebounceFire
  \/ ApiResize
  \/ phase = "ready" /\ clock < debounceWait /\ Advance(debounceWait)

SpecScene == InitScene /\ [][NextScene]_vars

----------------------------------------------------------------------------
(* The world point shared by the pointer listener and the frames: pointer   *)
(* moves that meet the plane or miss it, frames, a window resize, resize()  *)
(* and dispose(), in any order.                                             *)

MaxShareMoves == 2
MaxShareTicks == 2
MaxShareResizes == 1
MaxShareDisposes == 1

InitShare == InitWith({GoodPlatform}, {[w |-> 800, h |-> 600, dpr |-> 100]})

NextShare ==
  \/ Ready
  \/ \E pt \in ScenePoints : hist.ptrMoves < MaxShareMoves /\ PointerMove(pt[1], pt[2])
  \/ \E pose \in CameraPoses : Orbit(pose)
  \/ hist.ticks < MaxShareTicks /\ Tick("none")
  \/ \E w \in SceneWindows : hist.resizeEvents < MaxShareResizes /\ WindowResize(w)
  \/ ApiResize
  \/ hist.disposeCalls < MaxShareDisposes /\ ApiDispose(0)

SpecShare == InitShare /\ [][NextShare]_vars

----------------------------------------------------------------------------
(* dispose() with any one of its calls throwing, once or twice, around a    *)
(* frame.                                                                   *)

MaxDisposeCalls == 2
MaxDisposeTicks == 1

InitDispose == InitWith({GoodPlatform}, {[w |-> 800, h |-> 600, dpr |-> 100]})

NextDispose ==
  \/ Ready
  \/ hist.ticks < MaxDisposeTicks /\ Tick("none")
  \/ \E f \in DisposeFailPoints : hist.disposeCalls < MaxDisposeCalls /\ ApiDispose(f)

SpecDispose == InitDispose /\ [][NextDispose]_vars

----------------------------------------------------------------------------
(* The modal overlay: openModal calls and the ways of hiding the overlay,    *)
(* on every startup path.                                                    *)

InitModal == InitWith(Platforms, {[w |-> 800, h |-> 600, dpr |-> 100]})

NextModal ==
  \/ Ready
  \/ modal.opens < MaxModalOpens /\ OpenModal
  \/ hist.modalEvents < MaxModalEvents /\ ClickClose
  \/ hist.modalEvents < MaxModalEvents /\ ClickOK
  \/ hist.modalEvents < MaxModalEvents /\ ClickOverlay
  \/ hist.modalEvents < MaxModalEvents /\ AltM
  \/ hist.modalEvents < MaxModalEvents /\ PressEscape

SpecModal == InitModal /\ [][NextModal]_vars

----------------------------------------------------------------------------
(* Scrolling: scroll events and the animation frames that reopen the        *)
(* throttle.  A requested animation frame callback is run in the end.       *)

ScrollPositions == {0, 150, 500, 1000}

InitScroll == InitWith(Platforms, {[w |-> 800, h |-> 600, dpr |-> 100]})

NextScroll ==
  \/ Ready
  \/ \E p \in ScrollPositions : hist.scrollEvents < MaxScrollEvents /\ ScrollEvent(p)
  \/ ThrottleRelease

SpecScroll == InitScroll /\ [][NextScroll]_vars /\ WF_vars(Ready) /\ WF_vars(ThrottleRelease)

----------------------------------------------------------------------------
(* Properties *)

\* A step taken by a requestAnimationFrame(renderLoop) callback.
IsTickStep == hist'.ticks = hist.ticks + 1 /\ hist'.starts = hist.starts

\* camera aspect a = <<n, d>> equals w / h.
AspectIs(a, w, h) == h > 0 /\ a[2] > 0 /\ a[1] * h = w * a[2]

\* C1 (as claimed): dispose() is idempotent: a second call makes no release
\* attempt beyond those of the first, so no resource is ever released twice.
C1_DisposeIdempotent == \A x \in Resources : releases[x] <= 1

\* C2 (as claimed): once dispose() has been called, a tick of the render loop
\* is a no-op: it changes no scene state, draws nothing and does not feed Perf.
C2_TickAfterDisposeIsNoOp ==
  [][(hist.disposeCalls > 0 /\ IsTickStep)
       => (eng' = eng /\ lastFrame' = lastFrame /\ perf' = perf)]_vars

\* C3 (as claimed): a frame whose work throws does not end the render loop:
\* the callback that failed has still scheduled its successor.
C3_LoopSurvivesFrameFailure ==
  [][(IsTickStep /\ hist'.frameFailures > hist.frameFailures)
       => rafPending' >= rafPending]_vars

\* C4: when feature detection reports no WebGL, the engine is never built
\* (setupThree is not called, no renderLoop callback is scheduled or run, no
\* draw call is made), exactly one toast, the no-WebGL notice, is created,
\* and the navigation, showcase, form, magnetic and underline handlers are
\* installed.
C4_NoWebGLNoEngine ==
  (phase = "ready" /\ ~env.webgl) =>
    /\ ~api
    /\ hist.setupThreeCalls = 0
    /\ rafPending = 0
    /\ hist.ticks = 0
    /\ eng.draws = 0
    /\ ~lastFrame.drawn
    /\ toasts = [k \in ToastKinds |-> IF k = "nowebgl" THEN 1 ELSE 0]
    /\ \A f \in {"setupNavigation", "setupShowcase", "setupForm", "setupMagnetic",
                 "setupUnderlineHover"} : installs[f] >= 1

C4_Witness == phase = "ready" /\ ~env.webgl /\ clock >= welcomeDelay

\* C5 (as claimed): the lifecycle only moves Uninitialized -> Running ->
\* Disposed: a render loop is started once only, and after dispose() no
\* render loop is left running.
C5_LifecycleForwardOnly ==
  /\ hist.runningEntries <= 1
  /\ hist.disposeCalls > 0 => rafPending = 0

\* C6: a burst of resize events, each less than 80 ms after the one before,
\* runs resize() exactly once, 80 ms after its last event and never earlier,
\* with the window dimensions of that moment.
C6_DebounceCoalesces ==
  /\ hist.debAt \in {-1, debounceWait}
  /\ hist.owedRuns =
       (IF hist.sinceEvt >= 0
           /\ (hist.sinceEvt < debounceWait
               \/ (hist.sinceEvt = debounceWait /\ 0 \in timers))
          THEN 1 ELSE 0)
  /\ (hist.sinceEvt >= 0 /\ hist.owedRuns = 0)
       => (view.surfW = win.w /\ view.surfH = win.h)

C6_Witness ==
  /\ hist.burstLen >= 2
  /\ hist.debAt = debounceWait
  /\ hist.owedRuns = 0
  /\ hist.sinceEvt = debounceWait

\* C7: after every resize the camera aspect, and the projection made from
\* it, equal surface width / surface height, and every rendered frame was
\* given a projection aspect equal to the surface width / height it was
\* given.
C7_AspectMatchesSurface ==
  /\ api => /\ AspectIs(view.aspect, view.surfW, view.surfH)
            /\ AspectIs(view.projAspect, view.surfW, view.surfH)
  /\ lastFrame.drawn => AspectIs(lastFrame.projAspect, lastFrame.surfW, lastFrame.surfH)

C7_Witness ==
  /\ lastFrame.drawn
  /\ eng.lastTime = clock
  /\ hist.debAt = debounceWait
  /\ hist.owedRuns = 0
  /\ hist.sinceEvt = debounceWait
  /\ lastFrame.surfW = win.w
  /\ lastFrame.surfH = win.h

\* C8: after resize() the renderer pixel ratio is min(devicePixelRatio, 2),
\* for the devicePixelRatio read by that resize, and is greater than 0.
C8_PixelRatioClamped ==
  api => /\ view.pixelRatio = Min(hist.resizedFor.dpr, Hundredths(2))
         /\ view.pixelRatio > 0

C8_Witness ==
  /\ api
  /\ hist.debAt = debounceWait
  /\ hist.resizedFor.dpr = 300
  /\ view.pixelRatio = 200

\* C9 (as claimed): dt is clamped at 0, so elapsed never decreases.
C9_ElapsedNeverDecreases == [][eng'.elapsed >= eng.elapsed]_vars

\* fps is the quotient a / b rounded to the nearest integer, halves up.
IsRounded(fps, a, b) == 2 * b * fps <= 2 * a + b /\ 2 * a + b < 2 * b * (fps + 1)

\* C10: Perf counts every frame; the frame at which the window has lasted
\* 1000 ms or more publishes fps = round(frames * 1000 / duration) and
\* restarts the count at 0 and the window at that frame's time; 60 frames in
\* 1000 ms give 60, 30 frames in 1000 ms give 30.
C10_FpsSample ==
  /\ perf.frames = hist.winTicks
  /\ perf.last = hist.winStart
  /\ perf.samples > 0 =>
       /\ hist.sampleDur >= perfWindow
       /\ IsRounded(perf.fps, hist.sampleTicks * 1000, hist.sampleDur)
       /\ (hist.sampleTicks = 60 /\ hist.sampleDur = 1000) => perf.fps = 60
       /\ (hist.sampleTicks = 30 /\ hist.sampleDur = 1000) => perf.fps = 30

C10_Witness ==
  /\ perf.samples > 0
  /\ hist.sampleTicks = 60
  /\ hist.sampleDur = 1000
  /\ perf.frames = 0
  /\ perf.last = clock

\* The three displays.
Displays == <<perf.fpsText, perf.trisText, perf.memText>>

\* C11: the displays are written once per sampling window: a step that does
\* not publish leaves all three as they were, and a publication comes at a
\* clock reading at least 1000 ms after the reading of the one before it.
C11_OncePerWindow ==
  [][IF perf'.samples = perf.samples
       THEN Displays' = Displays
       ELSE /\ perf'.samples = perf.samples + 1
            /\ hist.hudAt # -1 => clock - hist.hudAt >= perfWindow]_vars

C11_Witness ==
  /\ perf.samples = 2
  /\ hist.hudGap >= perfWindow
  /\ perf.frames > 0
  /\ perf.fpsText.kind = "num"

\* C12 (as claimed): once a sample has been published, an absent triangle
\* count or heap size shows as the dash, never as a number.
C12_AbsentShowsMarker ==
  perf.samples > 0 =>
    /\ (env.trisEl /\ env.tris.kind # "count") => perf.trisText = Marker
    /\ (env.memEl /\ env.heap = 0) => perf.memText = Marker

\* Scale s lies in [0.98, 1.14].
ScaleInRange(sc) == 98 * EaseUnit <= sc /\ sc <= 114 * EaseUnit

\* C13: a ring at distance 0 from the pointer's world point is scaled 1.14,
\* one at distance 1/0.26 or more is scaled 0.98, of two rings the nearer
\* has the scale that is not smaller, and every ring's scale is in
\* [0.98, 1.14] at all times.
C13_RingScale ==
  /\ \A i \in Rings : ScaleInRange(eng.ringScale[i])
  /\ hist.toriRuns > 0 =>
       \A i \in Rings :
         /\ hist.ringDist[i] = 0 => eng.ringScale[i] = 114 * EaseUnit
         /\ hist.ringDist[i] * 26 >= 100 * DistUnit => eng.ringScale[i] = 98 * EaseUnit
         /\ \A j \in Rings : hist.ringDist[i] <= hist.ringDist[j]
                                => eng.ringScale[i] >= eng.ringScale[j]

C13_Witness ==
  /\ hist.toriRuns > 1
  /\ hist.nearSeen
  /\ \E i \in Rings : hist.ringDist[i] * 26 > 100 * DistUnit /\ eng.ringScale[i] = 98 * EaseUnit
  /\ \E i, j \in Rings :
       /\ hist.ringDist[i] < hist.ringDist[j]
       /\ eng.ringScale[j] < eng.ringScale[i]
       /\ eng.ringScale[i] < 114 * EaseUnit
       /\ 98 * EaseUnit < eng.ringScale[j]

\* C14: once the engine is built the ring cluster holds exactly 9 rings and
\* the particle field exactly 420 particles, and the scene holds the objects
\* it was built with, whatever operations have run since.
C14_EntityCounts ==
  api => /\ Cardinality(eng.rings) = 9
         /\ eng.rings = Rings
         /\ eng.particles = 420
         /\ eng.scene = SceneChildren

C14_Witness ==
  /\ api
  /\ hist.ticks > hist.starts
  /\ hist.starts > 0
  /\ hist.disposeCalls > 0
  /\ hist.ptrMoves > 0
  /\ hist.debAt = debounceWait
  /\ Cardinality(eng.rings) = 9
  /\ eng.particles = 420

\* A step taken by the 'pointermove' listener.
IsPointerStep == hist'.ptrMoves = hist.ptrMoves + 1

\* C15: a pointer move whose ray does not meet the plane z = 0 leaves the
\* world point exactly as it was, and the world point is at all times the
\* one computed by the last pointer move whose ray did meet the plane.
C15_MissKeepsWorldPoint ==
  /\ [](api => eng.pointer3D = hist.lastHit)
  /\ [][(IsPointerStep /\ ~hist'.lastEvt.hit) => eng'.pointer3D = eng.pointer3D]_vars

C15_Witness ==
  /\ hist.ptrMoves > 1
  /\ ~hist.lastEvt.hit
  /\ hist.lastHit # <<0, 0, 0>>
  /\ eng.pointer3D = hist.lastHit
  /\ hist.movesAtTick = hist.ptrMoves
  /\ hist.ptrAtTick = hist.lastHit
  /\ \E i \in Rings : eng.ringScale[i] # ringScale(distanceTo(ringPosition[i], <<0, 0, 0>>))

\* C16: every frame scales all 9 rings by their distance to one world
\* point, the one written by the last pointer move before that frame whose
\* ray met the plane; and no step other than a pointer move (a frame, a
\* resize, dispose()) changes the pointer or the world point.
C16_LastWriteWins ==
  /\ [](hist.toriRuns > 0 =>
          \A i \in Rings :
            eng.ringScale[i] = ringScale(distanceTo(ringPosition[i], hist.ptrAtTick)))
  /\ [][(api /\ ~IsPointerStep)
          => (eng'.pointer = eng.pointer /\ eng'.pointer3D = eng.pointer3D)]_vars

C16_Witness ==
  /\ hist.ptrMoves = 2
  /\ hist.toriRuns = 2
  /\ hist.movesAtTick = 2
  /\ hist.ptrAtTick = <<42, 0, 0>>
  /\ eng.pointer3D = <<42, 0, 0>>
  /\ ~hist.lastEvt.hit
  /\ eng.ringScale[0] = 114 * EaseUnit
  /\ hist.disposeCalls > 0
  /\ view.surfW = 400

\* C17: the pointer is stored as x = 2 * clientX / width - 1 and
\* y = 1 - 2 * clientY / height, both within [-1, 1] for a point of the
\* window; the world point has z = 0; and with the camera at (0, 0, 6) a
\* pointer at the centre of the window gives the world point (0, 0, 0).
C17_PointerProjection ==
  /\ eng.pointer3D[3] = 0
  /\ hist.ptrMoves > 0 =>
       LET ev == hist.lastEvt
       IN /\ eng.pointer[1] * ev.w = (2 * ev.cx - ev.w) * NdcUnit
          /\ eng.pointer[2] * ev.h = (ev.h - 2 * ev.cy) * NdcUnit
          /\ (ev.cx \in 0..ev.w /\ ev.cy \in 0..ev.h) =>
               /\ -NdcUnit <= eng.pointer[1] /\ eng.pointer[1] <= NdcUnit
               /\ -NdcUnit <= eng.pointer[2] /\ eng.pointer[2] <= NdcUnit
          /\ (ev.front /\ 2 * ev.cx = ev.w /\ 2 * ev.cy = ev.h) =>
               (ev.hit /\ eng.pointer3D = <<0, 0, 0>>)

C17_Witness ==
  /\ hist.ptrMoves = 2
  /\ hist.lastEvt.front
  /\ hist.lastEvt.cx = 400
  /\ hist.lastEvt.cy = 300
  /\ eng.pointer = <<0, 0>>
  /\ eng.pointer3D = <<0, 0, 0>>
  /\ hist.toriRuns > 0
  /\ hist.ptrAtTick # <<0, 0, 0>>

\* C18 (as claimed): a touch move at a client point changes the pointer and
\* the world point exactly as a pointer move at that point would.
C18_TouchAsPointer ==
  [][(hist'.touchMoves = hist.touchMoves + 1)
       => eng' = onPointerMove(eng, view, win, hist'.lastTouch[1], hist'.lastTouch[2])]_vars

\* C19 (as claimed): once dispose() has returned, the renderer and every
\* geometry and material setupThree made have been released: the rings',
\* the particles', the environment sphere's and the ground plane's.
C19_DisposeReleasesAll ==
  (hist.disposeCalls > 0 /\ ~hist.disposeThrew) => \A x \in Resources : releases[x] >= 1

\* C20 (as claimed): when one release call of dispose() throws, every other
\* release call has still been made and dispose() has not thrown to its
\* caller.
C20_DisposeSuppressesErrors ==
  hist.disposeCalls = 1 =>
    /\ ~hist.disposeThrew
    /\ \A k \in 1..Len(DisposeOrder) :
         k # hist.disposeFailed => releases[DisposeOrder[k]] >= 1

\* C21 (as claimed): when init() throws out of setupThree on a page whose
\* WebGL check passed, the entrypoint shows the error toast, no render loop is
\* pending or has run, the navigation, showcase, form, magnetic and underline
\* handlers are installed, and only the 3D subsystem is lost: every non-3D
\* wiring of a successful load is in place.
C21_InitFailureDisablesOnly3D ==
  (phase = "ready" /\ entryPath(env) = "initthrows") =>
    /\ toasts["initerror"] = 1
    /\ ~api
    /\ rafPending = 0
    /\ hist.ticks = 0
    /\ eng.draws = 0
    /\ \A f \in {"setupNavigation", "setupShowcase", "setupForm", "setupMagnetic",
                 "setupUnderlineHover"} : installs[f] >= 1
    /\ \A f \in InitTail : installs[f] >= 1

\* A step that runs renderLoop's body once: a requestAnimationFrame callback
\* or a call of the API's start().
IsFrameStep == hist'.ticks = hist.ticks + 1

\* C22: every run of the frame takes its steps in one order.  dt is added to
\* elapsed first; the root transform, the particles' time uniform and the
\* orbit light are then set from the new elapsed; the rings are updated only
\* after them; at most one draw call follows, and it is given the transforms
\* and uniforms of this very frame; Perf.frameTick runs once, and only after
\* the draw call.  A frame in which nothing throws takes every step.
C22_TickOrder ==
  [][IsFrameStep =>
       LET dt == clock - eng.lastTime
           sceneRan == eng'.particleRotY # eng.particleRotY
           toriRan == eng'.ringRotY # eng.ringRotY
           drew == eng'.draws # eng.draws
           sampled == perf' # perf
       IN /\ eng'.elapsed = eng.elapsed + dt
          /\ sceneRan => /\ eng'.rootArg = eng.elapsed + dt
                         /\ eng'.uTime = eng.elapsed + dt
                         /\ eng'.lightArg = eng.elapsed + dt
          /\ toriRan => sceneRan
          /\ drew => /\ sceneRan /\ toriRan
                     /\ eng'.draws = eng.draws + 1
                     /\ lastFrame'.uTime = eng.elapsed + dt
                     /\ lastFrame'.rootArg = eng.elapsed + dt
                     /\ lastFrame'.lightArg = eng.elapsed + dt
                     /\ \A i \in eng.rings :
                          /\ lastFrame'.ringRotZ[i] = eng.ringRotZ[i] + 2 + 2 * (i % 3)
                          /\ lastFrame'.ringRotY[i] = eng.ringRotY[i] + 1
                          /\ lastFrame'.ringScale[i] = eng'.ringScale[i]
          /\ ~drew => lastFrame' = lastFrame
          /\ sampled => drew /\ perf' = frameTick(perf, clock, env)
          /\ hist'.frameFailures = hist.frameFailures
               => sceneRan /\ toriRan /\ drew /\ sampled]_vars

\* A frame that ran to its end some time after the engine was built: it drew
\* once, with the time uniform of that frame, and Perf counted it.
C22_Witness ==
  /\ hist.ticks > 0
  /\ hist.frameFailures = 0
  /\ lastFrame.drawn
  /\ lastFrame.uTime > 0
  /\ lastFrame.uTime = eng.elapsed
  /\ eng.draws = 1
  /\ perf.frames = 1

\* C23: once the rings are built, every ring keeps its index, position,
\* rotation.x, torus radii and hue at the values buildTori gave it, in every
\* state; frames, pointer moves, resizes and dispose() leave these fields
\* alone, and a frame changes nothing of a ring but its scale, rotation.z and
\* rotation.y.
C23_RingFieldsFixed ==
  api => /\ eng.rings = Rings
         /\ \A i \in eng.rings :
              /\ eng.mesh[i].index = i
              /\ eng.mesh[i].position = ringPosition[i]
              /\ eng.mesh[i].rotationX = (IF i % 2 = 1 THEN -15 ELSE 15)
              /\ eng.mesh[i].radius = 80 + 8 * i
              /\ eng.mesh[i].tube = (IF i % 2 = 1 THEN 11 ELSE 8)
              /\ eng.mesh[i].hue = (99 + 5 * i) % 180

\* The rings after a frame that followed a pointer move, a resize and a
\* dispose(): some ring has been scaled up and all have been spun.
C23_Witness ==
  /\ api
  /\ hist.toriRuns > 0
  /\ hist.ptrMoves > 0 /\ hist.movesAtTick = hist.ptrMoves
  /\ hist.resizeEvents > 0
  /\ hist.disposeCalls > 0
  /\ \E i \in eng.rings : eng.ringScale[i] > 100 * EaseUnit
  /\ \A i \in eng.rings : eng.ringRotZ[i] > 0 /\ eng.ringRotY[i] > 0

\* C24: every frame adds 0.002 + 0.002 * (index mod 3) to each ring's
\* rotation.z and 0.001 to its rotation.y (thousandths: 2 + 2 * (i % 3) and
\* 1), whatever dt, the pointer's world point and the ring's scale are; so
\* after k frames ring i has rotation.z = k * (0.002 + 0.002 * (i mod 3)) and
\* rotation.y = 0.001 * k, however pointer events fall between the frames.
C24_ConstantSpin ==
  \A i \in eng.rings :
    /\ eng.ringRotZ[i] = hist.ticks * (2 + 2 * (i % 3))
    /\ eng.ringRotY[i] = hist.ticks

\* Two frames, one of them after time has passed and after a pointer move
\* that brought the pointer next to a ring.
C24_Witness ==
  /\ hist.ticks = 2
  /\ eng.elapsed > 0
  /\ hist.ptrMoves > 0 /\ hist.movesAtTick = hist.ptrMoves
  /\ \E i \in eng.rings : eng.ringScale[i] > 100 * EaseUnit
  /\ \E i \in eng.rings : eng.ringScale[i] < 100 * EaseUnit
  /\ eng.ringRotZ[2] = 12

\* C25 (as claimed): at every moment at most one requestAnimationFrame
\* callback of renderLoop is pending, whatever calls of start() and frames
\* have happened, so one display refresh runs renderLoop at most once.
C25_OneCallbackPending == rafPending <= 1

\* C26 (as claimed): on every startup path (no WebGL, init() returning,
\* init() throwing) each UI wiring function has run at most once, so no
\* event has two handlers of the same kind.
C26_WiringAtMostOnce == \A f \in WiringSet : installs[f] <= 1

\* C27 (as claimed): in every frame drawn, the particle shader's uPixelRatio
\* uniform equals the renderer's pixel ratio, also after a resize that found
\* a changed devicePixelRatio.
C27_UniformFollowsPixelRatio ==
  lastFrame.drawn => lastFrame.uPixelRatio = lastFrame.pixelRatio

\* C28 (as claimed): whenever the overlay is hidden, no keydown handler that
\* openModal's focus trap put on the document is still registered, however
\* the overlay was hidden and however many openModal calls there were; and
\* no open's cleanup has run more than once.
C28_HiddenMeansNoTrap ==
  /\ modal.hidden => modal.traps = {}
  /\ \A k \in 1..modal.opens : modal.cleanups[k] <= 1

\* C29 (as claimed): once the scroll events have ended, the throttled
\* updateProgress has in the end run with the last scroll position: from some
\* moment on the progress bar's width is that of the page's position and
\* lastScroll is that position.
C29_FinalPositionShown ==
  <>[](/\ scroll.lastScroll = scroll.pos
       /\ scroll.width = MathRound(scroll.pos * 100, docHeight))

============================================================================
